---- MODULE Spec2Model ----
(***************************************************************************)
(* A model of puresnmp/priv.py: the SNMPv3 USM privacy layer.  Padding,    *)
(* the salt generator, the Priv registry and factory, and DES.encrypt_data *)
(* and DES.decrypt_data on message envelopes.                              *)
(*                                                                         *)
(* Bytes are the integers 0..255 and byte strings are sequences of them.   *)
(* An Optional value is a sequence of length 0 (None) or 1.  A 32-bit      *)
(* unsigned integer is a record of two 16-bit limbs, [hi, lo], because the *)
(* model checker's integers are 32-bit signed and cannot hold 0xFFFFFFFF.  *)
(***************************************************************************)
EXTENDS Integers, Sequences, FiniteSets, TLC

VARIABLES
    classes,     \* class name -> [parent, ident]: the Priv class hierarchy
    registry,    \* Priv.__registry: identifier -> class name
    history,     \* identifier -> the class names registered under it, in order
    instances,   \* the Priv objects built so far: [cls, saltpot]
    pots,        \* the generator objects made so far; a saltpot attribute indexes it
    draws,       \* per generator, the values it has yielded, in order
    ncalls,      \* the number of encrypt_data and decrypt_data calls made
    salts,       \* per instance, the encrypts that succeeded: [engine, boots, salt, draw]
    call,        \* the last call made: operation, arguments and outcome
    lastEnc,     \* Optional: the last successful encrypt_data call
    padIn,       \* pad_packet's arguments: [data, block_size]
    padOut       \* Optional: pad_packet's result

vars == <<classes, registry, history, instances, pots, draws, ncalls, salts,
          call, lastEnc, padIn, padOut>>

-----------------------------------------------------------------------------
(* Optional values and bytes *)

None == <<>>
Some(x) == <<x>>
IsNone(o) == Len(o) = 0
Get(o) == o[1]

Min(a, b) == IF a < b THEN a ELSE b

RECURSIVE BitXor(_, _)
BitXor(a, b) ==
    IF a = 0 THEN b
    ELSE IF b = 0 THEN a
    ELSE ((a + b) % 2) + 2 * BitXor(a \div 2, b \div 2)

Zeroes(n) == [i \in 1..n |-> 0]

RECURSIVE SumSeq(_)
SumSeq(s) == IF s = <<>> THEN 0 ELSE (s[1] + SumSeq(Tail(s))) % 256

-----------------------------------------------------------------------------
(* pad_packet *)

\* pad_packet takes block_size and never reads it: the 8 is written out.
pad_packet(data, block_size) ==
    LET rest == Len(data) % 8
    IN  IF rest = 0
        THEN data
        ELSE LET numpad == 8 - rest
             IN  data \o Zeroes(numpad)

-----------------------------------------------------------------------------
(* 32-bit unsigned integers as two 16-bit limbs *)

Limb == 2 ^ 16

U32(h, l) == [hi |-> h, lo |-> l]

U32Max == U32(Limb - 1, Limb - 1)          \* 0xFFFFFFFF

U32Leq(a, b) == a.hi < b.hi \/ (a.hi = b.hi /\ a.lo <= b.lo)

U32Inc(a) == IF a.lo = Limb - 1 THEN U32(a.hi + 1, 0) ELSE U32(a.hi, a.lo + 1)

U32Dec(a) == IF a.lo = 0 THEN U32(a.hi - 1, Limb - 1) ELSE U32(a.hi, a.lo - 1)

\* x & 0xFF
LowByte(a) == a.lo % 256

-----------------------------------------------------------------------------
(* reference_saltpot: a generator object.  pc = "start" before the first   *)
(* next(); "yield" while suspended at the yield; "done" once the body has  *)
(* returned, after which next() raises StopIteration.                      *)

\* The values the seeds are sampled from; randint keeps those in its range.
SeedSamples ==
    { U32(0, 0), U32(0, 1), U32(0, Limb - 1),
      U32(Limb - 1, Limb - 3), U32(Limb - 1, Limb - 2), U32Max }

\* randint(1, 0xFFFFFFFF - 1)
SeedRange(s) == U32Leq(U32(0, 1), s) /\ U32Leq(s, U32Dec(U32Max))

Seeds == { s \in SeedSamples : SeedRange(s) }

\* salt += 1; if salt == 0xFFFFFFFF: salt = 0
AdvanceNoWrap(salt) == U32Inc(salt)
Advance(salt) ==
    LET s == U32Inc(salt)
    IN  IF s = U32Max THEN U32(0, 0) ELSE s

\* The generator object a call of reference_saltpot() returns.
reference_saltpot == [pc |-> "start", salt |-> U32(0, 0)]

\* next(g): the generator states one next() can lead to; the value yielded is
\* the salt of the new state.  The empty set means StopIteration.
SaltpotNext(g) ==
    CASE g.pc = "start" -> { [pc |-> "yield", salt |-> s] : s \in Seeds }
      [] g.pc = "yield" -> { [pc |-> "yield", salt |-> Advance(g.salt)] }
      [] OTHER -> {}

-----------------------------------------------------------------------------
(* The class hierarchy under Priv, and Priv.__registry *)

\* getattr(cls, "IDENTIFIER") of a class declared with the optional own
\* IDENTIFIER under the given parent: its own, or else the inherited one.
ClassIdent(parent, own) == IF IsNone(own) THEN classes[parent].ident ELSE own

RECURSIVE IsSubclass(_, _)
IsSubclass(c, of) ==
    IF c = of THEN TRUE
    ELSE IF c \notin DOMAIN classes THEN FALSE
    ELSE IsSubclass(classes[c].parent, of)

\* Priv.__init_subclass__(cls): the registry after it.
init_subclass(reg, ident, cls) ==
    IF IsNone(ident)
    THEN reg
    ELSE (Get(ident) :> cls) @@ reg

\* DES.__init__(self, saltpot): the saltpot attribute of the new object, None
\* when the attribute is never set.  fresh is the generator object that
\* reference_saltpot() returns.
DES_init(saltpot, fresh) == IF IsNone(saltpot) THEN Some(fresh) ELSE None

\* cls(): the object a call of the class with no arguments builds.  Priv and
\* its subclasses outside DES define no __init__ and set no attribute.
NewObject(cls, fresh) ==
    [cls |-> cls,
     saltpot |-> IF IsSubclass(cls, "DES") THEN DES_init(None, fresh) ELSE None]

\* Priv.create(identifier): the error raised ("" when it returns) and the
\* class whose instance is returned.
create_des(reg, identifier) ==
    IF identifier \notin DOMAIN reg
    THEN [error |-> "UnknownProtocol", detail |-> identifier, cls |-> ""]
    ELSE [error |-> "", detail |-> "", cls |-> "DES"]
create(reg, identifier) ==
    IF identifier \notin DOMAIN reg
    THEN [error |-> "UnknownProtocol", detail |-> identifier, cls |-> ""]
    ELSE [error |-> "", detail |-> "", cls |-> reg[identifier]]

-----------------------------------------------------------------------------
(* The collaborators priv.py imports: the key localization of              *)
(* puresnmp.util, the codec of puresnmp.adt and x690, and the DES cipher.  *)

\* password_to_key(hashlib.md5, 16): a deterministic 16-byte digest of the
\* long-term key and the engine id.
hasher(key, engine_id) ==
    [i \in 1..16 |-> (SumSeq(key) * 31 + SumSeq(engine_id) * 17 + i * 7) % 256]

\* One DES block: a keyed permutation of the 8-byte blocks, and its inverse.
DesBlockEncrypt(k, b) ==
    [i \in 1..8 |-> LET j == (i % 8) + 1 IN (b[j] + k[j]) % 256]

DesBlockDecrypt(k, c) ==
    [j \in 1..8 |-> (c[((j + 6) % 8) + 1] - k[j] + 256) % 256]

\* bytes(a ^ b for a, b in zip(x, y))
XorBytes(x, y) == [i \in 1..Min(Len(x), Len(y)) |-> BitXor(x[i], y[i])]

\* CDES.new(key, mode=MODE_CBC, IV=iv).encrypt(data), data a whole number of
\* blocks; prev is the IV, then the previous ciphertext block.
RECURSIVE CbcEncrypt(_, _, _)
CbcEncrypt(k, prev, data) ==
    IF data = <<>> THEN <<>>
    ELSE LET c == DesBlockEncrypt(k, XorBytes(SubSeq(data, 1, 8), prev))
         IN  c \o CbcEncrypt(k, c, SubSeq(data, 9, Len(data)))

RECURSIVE CbcDecrypt(_, _, _)
CbcDecrypt(k, prev, data) ==
    IF data = <<>> THEN <<>>
    ELSE LET c == SubSeq(data, 1, 8)
         IN  XorBytes(DesBlockDecrypt(k, c), prev)
                 \o CbcDecrypt(k, c, SubSeq(data, 9, Len(data)))

\* A scoped_pdu field is [type, value]: a structured ScopedPDU (value: its
\* content bytes) or an OctetString (value: the opaque bytes).
ScopedPDU(content) == [type |-> "ScopedPDU", value |-> content]
OctetString(bytes) == [type |-> "OctetString", value |-> bytes]

\* bytes(message.scoped_pdu): tag, length, content.
Encode(pdu) ==
    <<IF pdu.type = "ScopedPDU" THEN 48 ELSE 4, Len(pdu.value)>> \o pdu.value

\* ScopedPDU.decode(data): reads tag and length, takes that many content bytes
\* and ignores what follows; None when data is no encoded ScopedPDU.
Decode(data) ==
    IF Len(data) >= 2 /\ data[1] = 48 /\ Len(data) >= 2 + data[2]
    THEN Some(ScopedPDU(SubSeq(data, 3, 2 + data[2])))
    ELSE None

\* A message envelope and its security parameters.
USM(engine_id, engine_boots, priv_params) ==
    [authoritative_engine_id |-> engine_id,
     authoritative_engine_boots |-> engine_boots,
     authoritative_engine_time |-> 77,
     user_name |-> "user",
     auth_params |-> <<9, 9>>,
     priv_params |-> priv_params]

Message(security_parameters, scoped_pdu) ==
    [version |-> 3,
     header |-> [message_id |-> 42, flags |-> 3],
     security_parameters |-> security_parameters,
     scoped_pdu |-> scoped_pdu]

-----------------------------------------------------------------------------
(* DES.encrypt_data *)

\* (engine_boots & 0xFF).to_bytes(4, "big") + (local_salt & 0xFF).to_bytes(4, "big")
WireSalt(engine_boots, local_salt) ==
    <<0, 0, 0, engine_boots % 256>> \o <<0, 0, 0, LowByte(local_salt)>>

\* The two next(self.saltpot) calls of one encrypt_data: the sequences of
\* generator states they can lead to.
TwoDrawsOnce(g) == { <<g1>> : g1 \in SaltpotNext(g) }
TwoDraws(g) ==
    UNION { { <<g1, g2>> : g2 \in SaltpotNext(g1) } : g1 \in SaltpotNext(g) }

\* The message encrypt_data returns once the salt is drawn.
EncryptedBootsMasked(key, message, local_salt) ==
    LET sp == Get(message.security_parameters)
        private_privacy_key == hasher(key, sp.authoritative_engine_id)
        des_key == SubSeq(private_privacy_key, 1, 8)
        pre_iv == SubSeq(private_privacy_key, 9, 16)
        salt == WireSalt(sp.authoritative_engine_boots, local_salt)
        init_vector == XorBytes(salt, pre_iv)
        padded == pad_packet(Encode(message.scoped_pdu), 8)
        encrypted == CbcEncrypt(des_key, init_vector, padded)
    IN  [message EXCEPT
            !.security_parameters =
                Some([sp EXCEPT !.priv_params = salt,
                                !.authoritative_engine_boots = @ % 256]),
            !.scoped_pdu = OctetString(encrypted)]
Encrypted(key, message, local_salt) ==
    LET sp == Get(message.security_parameters)
        private_privacy_key == hasher(key, sp.authoritative_engine_id)
        des_key == SubSeq(private_privacy_key, 1, 8)
        pre_iv == SubSeq(private_privacy_key, 9, 16)
        salt == WireSalt(sp.authoritative_engine_boots, local_salt)
        init_vector == XorBytes(salt, pre_iv)
        padded == pad_packet(Encode(message.scoped_pdu), 8)
        encrypted == CbcEncrypt(des_key, init_vector, padded)
    IN  [message EXCEPT
            !.security_parameters = Some([sp EXCEPT !.priv_params = salt]),
            !.scoped_pdu = OctetString(encrypted)]

\* An outcome of a call: the error raised ("" when it returns), the message
\* returned, the argument message as the call leaves it, and the states the
\* generator went through.
Raised(error, message) ==
    [error |-> error, output |-> None, input |-> message, yielded |-> <<>>]

\* self.encrypt_data(key, message), self an object built by DES or a subclass:
\* the outcomes possible, over the seed a first draw picks.
encrypt_data(self, key, message) ==
    IF IsNone(message.security_parameters)
    THEN { Raised("MissingSecurityParameters", message) }
    ELSE IF IsNone(self.saltpot)
    THEN { Raised("AttributeError", message) }
    ELSE IF SaltpotNext(pots[Get(self.saltpot)]) = {}
    THEN { Raised("StopIteration", message) }
    ELSE { [error |-> "",
            output |-> Some(Encrypted(key, message, gs[1].salt)),
            input |-> message,
            yielded |-> gs] : gs \in TwoDraws(pots[Get(self.saltpot)]) }

-----------------------------------------------------------------------------
(* DES.decrypt_data *)

\* The IV decrypt_data rebuilds: priv_params xor pre_iv.
decrypt_iv_unsalted(message, private_privacy_key) ==
    SubSeq(private_privacy_key, 9, 16)
decrypt_iv(message, private_privacy_key) ==
    LET pre_iv == SubSeq(private_privacy_key, 9, 16)
        salt == Get(message.security_parameters).priv_params
    IN  XorBytes(salt, pre_iv)

\* The checks decrypt_data makes before it touches the key, in the code's
\* order: the error raised, "" when all pass.
decrypt_guard_params_first(message) ==
    IF IsNone(message.security_parameters) THEN "MissingSecurityParameters"
    ELSE IF message.scoped_pdu.type # "OctetString" THEN "UnexpectedPlaintext"
    ELSE IF Len(message.scoped_pdu.value) % 8 # 0 THEN "MalformedCiphertext"
    ELSE ""
decrypt_guard(message) ==
    IF message.scoped_pdu.type # "OctetString" THEN "UnexpectedPlaintext"
    ELSE IF Len(message.scoped_pdu.value) % 8 # 0 THEN "MalformedCiphertext"
    ELSE IF IsNone(message.security_parameters) THEN "MissingSecurityParameters"
    ELSE ""

\* self.decrypt_data(decrypt_key, message): its one outcome.
decrypt_data(decrypt_key, message) ==
    IF decrypt_guard(message) # ""
    THEN Raised(decrypt_guard(message), message)
    ELSE
    LET sp == Get(message.security_parameters)
        private_privacy_key == hasher(decrypt_key, sp.authoritative_engine_id)
        des_key == SubSeq(private_privacy_key, 1, 8)
        init_vector == decrypt_iv(message, private_privacy_key)
        decrypted == CbcDecrypt(des_key, init_vector, message.scoped_pdu.value)
    IN  IF Len(init_vector) # 8
        THEN Raised("ValueError", message)
        ELSE IF Len(message.scoped_pdu.value) > 0 /\ Len(decrypted) = 0
        THEN Raised("DecryptionFailure", message)
        ELSE IF IsNone(Decode(decrypted))
        THEN Raised("DecodeError", message)
        ELSE [error |-> "",
              output |-> Some([message EXCEPT !.scoped_pdu = Get(Decode(decrypted))]),
              input |-> message,
              yielded |-> <<>>]

-----------------------------------------------------------------------------
(* Bounds and the inputs the calls are made with *)

MaxClasses == 2      \* subclasses declared after import
MaxInstances == 1    \* objects built
MaxCalls == 2        \* encrypt_data and decrypt_data calls in Spec
MaxDraws == 30       \* next() calls in SpecPot
MaxSaltCalls == 130  \* encrypt_data calls in SpecSalt
MaxPadLen == 9       \* length of pad_packet's data in SpecPad
MaxBlockSize == 9    \* pad_packet's block_size in SpecPad

ClassPool == { "AES", "DES2", "Custom" }
Identifiers == { "des", "aes" }
CreateIdentifiers == Identifiers \cup { "nope" }

Keys == { <<1>>, <<2, 3>> }

\* Plaintext messages of 3, 8 and 9 encoded bytes, and messages without
\* security parameters.
EncryptInputs ==
    { Message(Some(USM(<<128, 1>>, 3, <<>>)), ScopedPDU(<<5>>)),
      Message(Some(USM(<<128, 2>>, 260, <<>>)), ScopedPDU(<<1, 2, 3, 4, 5, 6>>)),
      Message(Some(USM(<<128, 1>>, 260, <<>>)), ScopedPDU(<<9, 0, 0, 0, 0, 0, 0>>)),
      Message(None, ScopedPDU(<<5>>)),
      Message(None, OctetString(<<1, 2>>)) }

Received ==
    { Message(None, ScopedPDU(<<5>>)),
      Message(None, OctetString(Zeroes(8))),
      Message(None, OctetString(<<1, 2, 3>>)),
      Message(Some(USM(<<128, 1>>, 3, Zeroes(8))), ScopedPDU(<<5>>)),
      Message(Some(USM(<<128, 1>>, 3, Zeroes(8))), OctetString(Zeroes(9))),
      Message(Some(USM(<<128, 1>>, 3, <<>>)), OctetString(Zeroes(8))),
      Message(Some(USM(<<128, 1>>, 3, Zeroes(8))), OctetString(<<>>)) }

DecryptInputs ==
    Received \cup (IF IsNone(lastEnc) THEN {} ELSE { Get(Get(lastEnc).output) })

PadData == UNION { [1..n -> {0, 1}] : n \in 0..MaxPadLen }

-----------------------------------------------------------------------------
(* State *)

Idle ==
    [op |-> "none", self |-> 0, key |-> <<>>, ident |-> "", before |-> None,
     after |-> None, output |-> None, obj |-> 0, error |-> "", detail |-> ""]

\* The state once the module is imported: Priv and DES are declared, and
\* declaring DES has run Priv.__init_subclass__(DES).
Init ==
    /\ classes = ("Priv" :> [parent |-> "object", ident |-> None])
                 @@ ("DES" :> [parent |-> "Priv", ident |-> Some("des")])
    /\ registry = init_subclass(<<>>, Some("des"), "DES")
    /\ history = ("des" :> <<"DES">>)
    /\ instances = <<>>
    /\ pots = <<>>
    /\ draws = <<>>
    /\ salts = <<>>
    /\ ncalls = 0
    /\ call = Idle
    /\ lastEnc = None
    /\ padIn = [data |-> <<>>, block_size |-> 8]
    /\ padOut = None

\* class name(parent): [IDENTIFIER = own], which runs __init_subclass__.
DeclareSubclass(name, parent, own) ==
    /\ name \notin DOMAIN classes
    /\ parent \in DOMAIN classes
    /\ LET ident == ClassIdent(parent, own)
       IN  /\ classes' = (name :> [parent |-> parent, ident |-> ident]) @@ classes
           /\ registry' = init_subclass(registry, ident, name)
           /\ history' =
                IF IsNone(ident) THEN history
                ELSE [id \in DOMAIN history \cup {Get(ident)} |->
                        IF id # Get(ident) THEN history[id]
                        ELSE IF id \in DOMAIN history
                             THEN Append(history[id], name)
                             ELSE <<name>>]
           /\ call' = [Idle EXCEPT !.op = "declare", !.detail = name,
                                   !.ident = IF IsNone(ident) THEN "" ELSE Get(ident)]
    /\ UNCHANGED <<instances, pots, draws, ncalls, salts, lastEnc, padIn, padOut>>

\* The object store after obj is built; a DES object's __init__ has called
\* reference_saltpot().
Built(obj) ==
    /\ instances' = Append(instances, obj)
    /\ salts' = Append(salts, <<>>)
    /\ pots' = Append(pots, reference_saltpot)
    /\ draws' = Append(draws, <<>>)

\* Priv.create(identifier)
Create(identifier) ==
    LET r == create(registry, identifier)
    IN  /\ IF r.error # ""
           THEN /\ call' = [Idle EXCEPT !.op = "create", !.ident = identifier,
                                        !.error = r.error, !.detail = r.detail]
                /\ UNCHANGED <<instances, pots, draws, salts>>
           ELSE /\ Len(instances) < MaxInstances
                /\ LET obj == NewObject(r.cls, Len(pots) + 1)
                   IN  IF IsNone(obj.saltpot)
                       THEN /\ instances' = Append(instances, obj)
                            /\ salts' = Append(salts, <<>>)
                            /\ UNCHANGED <<pots, draws>>
                       ELSE Built(obj)
                /\ call' = [Idle EXCEPT !.op = "create", !.ident = identifier,
                                        !.obj = Len(instances) + 1]
        /\ UNCHANGED <<classes, registry, history, ncalls, lastEnc, padIn, padOut>>

\* DES() and DES(saltpot=g), g a generator the caller has just made.
Construct(withSaltpot) ==
    /\ Len(instances) < MaxInstances
    /\ Built([cls |-> "DES",
              saltpot |-> DES_init(IF withSaltpot THEN Some(Len(pots) + 1) ELSE None,
                                   Len(pots) + 1)])
    /\ call' = [Idle EXCEPT !.op = "construct", !.obj = Len(instances) + 1,
                            !.detail = IF withSaltpot THEN "saltpot" ELSE ""]
    /\ UNCHANGED <<classes, registry, history, ncalls, lastEnc, padIn, padOut>>

\* instances[i].encrypt_data(key, message)
EncryptData(i, key, message) ==
    \E o \in encrypt_data(instances[i], key, message) :
        /\ call' = [Idle EXCEPT !.op = "encrypt", !.self = i, !.key = key,
                                !.before = Some(message), !.after = Some(o.input),
                                !.output = o.output, !.error = o.error]
        /\ ncalls' = ncalls + 1
        /\ IF o.yielded = <<>>
           THEN UNCHANGED <<pots, draws>>
           ELSE LET p == Get(instances[i].saltpot)
                IN  /\ pots' = [pots EXCEPT ![p] = o.yielded[Len(o.yielded)]]
                    /\ draws' = [draws EXCEPT
                                   ![p] = @ \o [n \in 1..Len(o.yielded) |-> o.yielded[n].salt]]
        /\ IF o.error # ""
           THEN UNCHANGED <<salts, lastEnc>>
           ELSE /\ salts' = [salts EXCEPT ![i] = Append(@,
                    [engine |-> Get(message.security_parameters).authoritative_engine_id,
                     boots |-> Get(message.security_parameters).authoritative_engine_boots,
                     salt |-> Get(Get(o.output).security_parameters).priv_params,
                     at |-> Len(draws[Get(instances[i].saltpot)]) + 1])]
                /\ lastEnc' = Some([self |-> i, key |-> key, input |-> message,
                                    output |-> o.output])
        /\ UNCHANGED <<classes, registry, history, instances, padIn, padOut>>

\* instances[i].decrypt_data(key, message)
DecryptData(i, key, message) ==
    LET o == decrypt_data(key, message)
    IN  /\ call' = [Idle EXCEPT !.op = "decrypt", !.self = i, !.key = key,
                                !.before = Some(message), !.after = Some(o.input),
                                !.output = o.output, !.error = o.error]
        /\ ncalls' = ncalls + 1
        /\ UNCHANGED <<classes, registry, history, instances, pots, draws, salts,
                       lastEnc, padIn, padOut>>

\* next(pots[p])
Draw(p) ==
    \E g \in SaltpotNext(pots[p]) :
        /\ pots' = [pots EXCEPT ![p] = g]
        /\ draws' = [draws EXCEPT ![p] = Append(@, g.salt)]
        /\ call' = [Idle EXCEPT !.op = "next"]
        /\ UNCHANGED <<classes, registry, history, instances, ncalls, salts,
                       lastEnc, padIn, padOut>>

\* pad_packet(padIn.data, padIn.block_size)
PadPacket ==
    /\ IsNone(padOut)
    /\ padOut' = Some(pad_packet(padIn.data, padIn.block_size))
    /\ UNCHANGED <<classes, registry, history, instances, pots, draws, ncalls,
                   salts, call, lastEnc, padIn>>

-----------------------------------------------------------------------------
(* Specifications *)

\* Objects are built, by the factory or directly, and used.
Next ==
    \/ \E id \in CreateIdentifiers : Create(id)
    \/ \E w \in BOOLEAN : Construct(w)
    \/ /\ ncalls < MaxCalls
       /\ \E i \in 1..Len(instances), k \in Keys, m \in EncryptInputs :
            EncryptData(i, k, m)
    \/ /\ ncalls < MaxCalls
       /\ \E i \in 1..Len(instances), k \in Keys, m \in DecryptInputs :
            DecryptData(i, k, m)

Spec == Init /\ [][Next]_vars

\* Subclasses are declared and the factory is called.
NextRegistry ==
    \/ /\ Cardinality(DOMAIN classes) < 2 + MaxClasses
       /\ \E name \in ClassPool, parent \in DOMAIN classes,
             own \in {None} \cup { Some(id) : id \in Identifiers } :
            DeclareSubclass(name, parent, own)
    \/ \E id \in CreateIdentifiers : Create(id)

SpecRegistry == Init /\ [][NextRegistry]_vars

\* One generator made by reference_saltpot() is drawn from.
InitPot ==
    /\ Init!1 /\ Init!2 /\ Init!3
    /\ instances = <<[cls |-> "DES", saltpot |-> DES_init(None, 1)]>>
    /\ pots = <<reference_saltpot>>
    /\ draws = <<<<>>>>
    /\ salts = <<<<>>>>
    /\ ncalls = 0
    /\ call = Idle
    /\ lastEnc = None
    /\ padIn = [data |-> <<>>, block_size |-> 8]
    /\ padOut = None

NextPot == Len(draws[1]) < MaxDraws /\ Draw(1)

SpecPot == InitPot /\ [][NextPot]_vars

\* One DES() object encrypts message after message for one engine and one
\* engine-boots value.
SaltMessages ==
    { Message(Some(USM(<<128, 1>>, 3, <<>>)), ScopedPDU(p)) : p \in { <<5>> } }

NextSalt ==
    /\ ncalls < MaxSaltCalls
    /\ \E m \in SaltMessages : EncryptData(1, <<1>>, m)

SpecSalt == InitPot /\ [][NextSalt]_vars

\* pad_packet is applied to one argument list.
InitPad ==
    /\ Init!1 /\ Init!2 /\ Init!3 /\ Init!4 /\ Init!5 /\ Init!6 /\ Init!7
    /\ Init!8 /\ Init!9 /\ Init!10
    /\ padIn \in [data : PadData, block_size : 1..MaxBlockSize]
    /\ padOut = None

NextPad == PadPacket

SpecPad == InitPad /\ [][NextPad]_vars

-----------------------------------------------------------------------------
(* Properties *)

\* 0xFFFFFFFE, the last value before the wrap
U32Last == U32(Limb - 1, Limb - 2)

\* C3: the first value a reference_saltpot generator yields lies in
\* [1, 0xFFFFFFFE]; each later value is the previous one plus 1, except that
\* 0 follows 0xFFFFFFFE; 0xFFFFFFFF is never yielded; and the generator is
\* never exhausted: another next() always yields a value.
C3_SaltProgression ==
    LET d == draws[1]
    IN  /\ pots[1].pc # "done"
        /\ SaltpotNext(pots[1]) # {}
        /\ Len(d) >= 1 =>
             /\ d[1].hi > 0 \/ d[1].lo >= 1
             /\ d[1].hi < Limb - 1 \/ d[1].lo <= Limb - 2
        /\ \A n \in 2..Len(d) :
             IF d[n - 1] = U32Last
             THEN d[n] = U32(0, 0)
             ELSE IF d[n - 1].lo = Limb - 1
             THEN d[n] = U32(d[n - 1].hi + 1, 0)
             ELSE d[n] = U32(d[n - 1].hi, d[n - 1].lo + 1)
        /\ \A n \in 1..Len(d) : d[n] # U32Max

\* C3 witness: draws have passed the wrap from 0xFFFFFFFE to 0 and gone on.
C3_Wrapped ==
    \E n \in 2..Len(draws[1]) :
        /\ draws[1][n - 1] = U32Last
        /\ draws[1][n] = U32(0, 0)
        /\ Len(draws[1]) > n

\* C2: on one DES object, for one engine id and one engine-boots value, any
\* two successful encrypt_data calls write different salts into priv_params
\* (far fewer calls are made here than a full cycle of the generator takes).
C2_SaltsDistinct ==
    \A i \in 1..Len(salts) :
        \A j, k \in 1..Len(salts[i]) :
            (/\ j < k
             /\ salts[i][j].engine = salts[i][k].engine
             /\ salts[i][j].boots = salts[i][k].boots)
            => salts[i][j].salt # salts[i][k].salt

\* C7: pad_packet(data, block_size) returns data itself when len(data) is a
\* multiple of block_size, and otherwise data followed by zero bytes up to the
\* next multiple of block_size.
C7_PadsToBlockSize ==
    ~IsNone(padOut) =>
        LET d == padIn.data
            b == padIn.block_size
            r == Get(padOut)
        IN  IF Len(d) % b = 0
            THEN r = d
            ELSE /\ Len(r) = ((Len(d) \div b) + 1) * b
                 /\ SubSeq(r, 1, Len(d)) = d
                 /\ \A n \in (Len(d) + 1)..Len(r) : r[n] = 0

\* C4: an identifier stays with the class that registered it first: a later
\* declaration under the same identifier, its own or inherited, does not
\* replace it.
C4_FirstRegistrationKept ==
    /\ DOMAIN registry = DOMAIN history
    /\ \A id \in DOMAIN registry : registry[id] = history[id][1]

\* C9: every DES object holds a generator for encrypt_data to draw from,
\* whether DES was called with or without a saltpot, and no two objects hold
\* the same generator.
C9_EveryObjectOwnsSaltpot ==
    /\ \A i \in 1..Len(instances) :
         IsSubclass(instances[i].cls, "DES") => ~IsNone(instances[i].saltpot)
    /\ \A i, j \in 1..Len(instances) :
         (i # j /\ ~IsNone(instances[i].saltpot) /\ ~IsNone(instances[j].saltpot))
         => Get(instances[i].saltpot) # Get(instances[j].saltpot)

\* The last call was encrypt_data or decrypt_data on a message without
\* security parameters.
CallWithoutParams ==
    /\ call.op \in {"encrypt", "decrypt"}
    /\ IsNone(Get(call.before).security_parameters)

\* C5 as stated: encrypt_data and decrypt_data on a message without security
\* parameters fail with the missing-security-parameters error, whatever the
\* scoped_pdu field holds, and return no message.
C5_AlwaysMissingParams ==
    CallWithoutParams =>
        call.error = "MissingSecurityParameters" /\ IsNone(call.output)

\* C5 amended: on a message without security parameters, encrypt_data fails
\* with the missing-security-parameters error whatever scoped_pdu holds;
\* decrypt_data fails with it when scoped_pdu is an OctetString whose length
\* is a multiple of 8, with the unexpected-plaintext error when scoped_pdu is
\* no OctetString, and with the malformed-ciphertext error when it is an
\* OctetString of another length.  No message is returned in any of these.
C5_MissingParams ==
    CallWithoutParams =>
        LET pdu == Get(call.before).scoped_pdu
        IN  /\ IsNone(call.output)
            /\ call.error =
                 IF call.op = "encrypt" THEN "MissingSecurityParameters"
                 ELSE IF pdu.type # "OctetString" THEN "UnexpectedPlaintext"
                 ELSE IF Len(pdu.value) % 8 # 0 THEN "MalformedCiphertext"
                 ELSE "MissingSecurityParameters"

\* C5 witness: decrypt_data has failed for missing security parameters on an
\* opaque payload of a whole number of blocks.
C5_DecryptMissingParams ==
    /\ CallWithoutParams
    /\ call.op = "decrypt"
    /\ Get(call.before).scoped_pdu.type = "OctetString"
    /\ Len(Get(call.before).scoped_pdu.value) = 8
    /\ call.error = "MissingSecurityParameters"

\* The last call decrypted, with the same key, the message the last
\* successful encrypt_data returned for a plaintext ScopedPDU.
DecryptedLastEncrypted ==
    /\ call.op = "decrypt"
    /\ ~IsNone(lastEnc)
    /\ call.before = Get(lastEnc).output
    /\ call.key = Get(lastEnc).key
    /\ Get(lastEnc).input.scoped_pdu.type = "ScopedPDU"

\* C1: decrypt_data(K, m'), m' the message encrypt_data(K, m) returned for a
\* message m with a plaintext ScopedPDU, succeeds and returns a message whose
\* scoped_pdu equals that of m.
C1_RoundTrip ==
    DecryptedLastEncrypted =>
        /\ call.error = ""
        /\ ~IsNone(call.output)
        /\ Get(call.output).scoped_pdu = Get(lastEnc).input.scoped_pdu

\* C1 witness: a round trip through two cipher blocks, the second one padded,
\* under an engine-boots value above 255.
C1_RoundTripDone ==
    /\ DecryptedLastEncrypted
    /\ call.error = ""
    /\ Len(Get(call.before).scoped_pdu.value) = 16
    /\ Len(Encode(Get(lastEnc).input.scoped_pdu)) = 9
    /\ Get(Get(lastEnc).input.security_parameters).authoritative_engine_boots > 255

\* C8: encrypt_data and decrypt_data leave their argument message as it was.
\* The message a successful encrypt_data returns equals its argument outside
\* scoped_pdu and security_parameters.priv_params; the message a successful
\* decrypt_data returns equals its argument outside scoped_pdu.  A failing
\* call returns no message.
C8_Frame ==
    call.op \in {"encrypt", "decrypt"} =>
        /\ call.after = call.before
        /\ call.error # "" => IsNone(call.output)
        /\ call.error = "" =>
             /\ ~IsNone(call.output)
             /\ LET in == Get(call.before)
                    out == Get(call.output)
                IN  IF call.op = "decrypt"
                    THEN [out EXCEPT !.scoped_pdu = in.scoped_pdu] = in
                    ELSE [out EXCEPT
                            !.scoped_pdu = in.scoped_pdu,
                            !.security_parameters =
                                Some([Get(@) EXCEPT !.priv_params =
                                        Get(in.security_parameters).priv_params])]
                         = in

\* C8 witness: encrypt_data has returned a message with new scoped_pdu and
\* priv_params for an argument whose engine-boots value is above 255.
C8_EncryptReturned ==
    /\ call.op = "encrypt"
    /\ call.error = ""
    /\ Get(Get(call.before).security_parameters).authoritative_engine_boots > 255
    /\ Get(call.output).scoped_pdu # Get(call.before).scoped_pdu
    /\ Get(Get(call.output).security_parameters).priv_params
         # Get(Get(call.before).security_parameters).priv_params

\* C10: on every object, the generator has yielded exactly two values per
\* successful encrypt_data and none for any other call; the k-th successful
\* encrypt_data took the (2k-1)-th value, and wrote as priv_params the low
\* byte of authoritative_engine_boots as 4 big-endian bytes followed by the
\* low byte of that value as 4 big-endian bytes.
C10_SaltPerEncrypt ==
    /\ \A i \in 1..Len(instances) :
         IF IsNone(instances[i].saltpot)
         THEN salts[i] = <<>>
         ELSE LET d == draws[Get(instances[i].saltpot)]
              IN  /\ Len(d) = 2 * Len(salts[i])
                  /\ \A k \in 1..Len(salts[i]) :
                       /\ salts[i][k].at = 2 * k - 1
                       /\ salts[i][k].salt =
                            <<0, 0, 0, salts[i][k].boots % 256,
                              0, 0, 0, d[2 * k - 1].lo % 256>>
    /\ \A p \in 1..Len(pots) :
         (\A i \in 1..Len(instances) : instances[i].saltpot # Some(p))
         => draws[p] = <<>> /\ pots[p] = reference_saltpot

\* C10 witness: a second successful encrypt_data on one object, after which
\* the generator has yielded four values.
C10_SecondEncrypt ==
    \E i \in 1..Len(instances) :
        /\ Len(salts[i]) = 2
        /\ call.op = "encrypt"
        /\ call.error = ""
        /\ Len(draws[Get(instances[i].saltpot)]) = 4

\* C6: Priv.create(identifier) returns a new object of the class registered
\* under the identifier (of DES for "des" while DES is what "des" names), and
\* for an identifier outside the registry fails with the unknown-protocol
\* error carrying the identifier; no call of create changes the registry.
C6_FactoryLookup ==
    /\ [](call.op = "create" =>
            IF call.ident \in DOMAIN registry
            THEN /\ call.error = ""
                 /\ call.obj = Len(instances)
                 /\ instances[call.obj].cls = registry[call.ident]
            ELSE /\ call.error = "UnknownProtocol"
                 /\ call.detail = call.ident
                 /\ call.obj = 0)
    /\ [][call'.op = "create" =>
            /\ registry' = registry
            /\ call'.error = "" => Len(instances') = Len(instances) + 1
            /\ call'.error # "" => instances' = instances]_vars

\* C6 witness: create has returned an object of a class declared after
\* import, and so not of DES.
C6_CreatedDeclared ==
    /\ call.op = "create"
    /\ call.error = ""
    /\ call.ident = "aes"
    /\ instances[call.obj].cls \in ClassPool

====
